---- MODULE Spec2Model ----
(***************************************************************************)
(* Model of ftr (src/main.go): the receiver's upload handler with its auth *)
(* middleware, the tar.gz archiver (zipTar / unzipUntar) and the sender's  *)
(* sendFile.                                                               *)
(*                                                                         *)
(* A Go string is a sequence of one-character strings, so that path.Base,  *)
(* path.Join, strings.HasSuffix, ... are computed as Go computes them.     *)
(* A filesystem is a function from absolute paths (sequences of path       *)
(* elements) to nodes; the root <<>> is always a directory.                *)
(***************************************************************************)
EXTENDS Integers, Sequences, FiniteSets, TLC

\* ------------------------------------------------------------------------
\* Go strings
\* ------------------------------------------------------------------------

\* byte value of the characters the model uses (only their order matters)
Ord(c) ==
    CASE c = "-" -> 45
      [] c = "." -> 46
      [] c = "/" -> 47
      [] c = "a" -> 97
      [] c = "b" -> 98
      [] c = "e" -> 101
      [] c = "f" -> 102
      [] c = "g" -> 103
      [] c = "r" -> 114
      [] c = "s" -> 115
      [] c = "t" -> 116
      [] c = "z" -> 122

RECURSIVE StrLess(_, _)
\* a < b on Go strings (bytewise), the order os.ReadDir sorts names in
StrLess(a, b) ==
    IF b = <<>> THEN FALSE
    ELSE IF a = <<>> THEN TRUE
    ELSE IF a[1] = b[1] THEN StrLess(Tail(a), Tail(b))
    ELSE Ord(a[1]) < Ord(b[1])

\* strings.HasSuffix
HasSuffix(s, suf) ==
    /\ Len(s) >= Len(suf)
    /\ SubSeq(s, Len(s) - Len(suf) + 1, Len(s)) = suf

\* strings.TrimSuffix
TrimSuffix(s, suf) ==
    IF HasSuffix(s, suf) THEN SubSeq(s, 1, Len(s) - Len(suf)) ELSE s

\* strings.Index(s, "."): 0-based index of the first ".", -1 when absent
IndexDot(s) ==
    IF \E i \in 1..Len(s) : s[i] = "."
    THEN (CHOOSE i \in 1..Len(s) : s[i] = "." /\ \A j \in 1..(i-1) : s[j] # ".") - 1
    ELSE -1

\* index of the last "/" of s (1-based), 0 when there is none
LastSlash(s) ==
    IF \E i \in 1..Len(s) : s[i] = "/"
    THEN CHOOSE i \in 1..Len(s) : s[i] = "/" /\ \A j \in (i+1)..Len(s) : s[j] # "/"
    ELSE 0

RECURSIVE SplitSlash(_)
\* strings.Split(s, "/"): the elements between the slashes, empty ones included
SplitSlash(s) ==
    IF \A i \in 1..Len(s) : s[i] # "/" THEN <<s>>
    ELSE LET i == CHOOSE k \in 1..Len(s) : s[k] = "/" /\ \A j \in 1..(k-1) : s[j] # "/"
         IN  <<SubSeq(s, 1, i-1)>> \o SplitSlash(SubSeq(s, i+1, Len(s)))

RECURSIVE JoinSlash(_)
\* strings.Join(elems, "/")
JoinSlash(elems) ==
    IF elems = <<>> THEN <<>>
    ELSE IF Len(elems) = 1 THEN elems[1]
    ELSE elems[1] \o <<"/">> \o JoinSlash(Tail(elems))

RECURSIVE CleanElems(_, _, _)
\* the element stack path.Clean keeps: "" and "." dropped, ".." backs up over
\* a kept element, is dropped at the root and kept in a relative path
CleanElems(elems, out, rooted) ==
    IF elems = <<>> THEN out
    ELSE LET e == Head(elems)
             rest == Tail(elems)
         IN  IF e = <<>> \/ e = <<".">> THEN CleanElems(rest, out, rooted)
             ELSE IF e = <<".", ".">>
             THEN IF out # <<>> /\ out[Len(out)] # <<".", ".">>
                  THEN CleanElems(rest, SubSeq(out, 1, Len(out) - 1), rooted)
                  ELSE IF rooted THEN CleanElems(rest, out, rooted)
                  ELSE CleanElems(rest, Append(out, e), rooted)
             ELSE CleanElems(rest, Append(out, e), rooted)

\* path.Clean / filepath.Clean
Clean(p) ==
    IF p = <<>> THEN <<".">>
    ELSE LET rooted == p[1] = "/"
             out == CleanElems(SplitSlash(p), <<>>, rooted)
         IN  IF rooted THEN <<"/">> \o JoinSlash(out)
             ELSE IF out = <<>> THEN <<".">> ELSE JoinSlash(out)

RECURSIVE StripSlashes(_)
\* p without its trailing slashes
StripSlashes(p) ==
    IF p # <<>> /\ p[Len(p)] = "/" THEN StripSlashes(SubSeq(p, 1, Len(p) - 1)) ELSE p

\* path.Base / filepath.Base
Base(p) ==
    IF p = <<>> THEN <<".">>
    ELSE LET q == StripSlashes(p)
             r == SubSeq(q, LastSlash(q) + 1, Len(q))
         IN  IF r = <<>> THEN <<"/">> ELSE r

\* path.Dir / filepath.Dir
Dir(p) == Clean(SubSeq(p, 1, LastSlash(p)))

\* path.Join / filepath.Join of two elements
Join(a, b) ==
    IF a = <<>> /\ b = <<>> THEN <<>>
    ELSE IF a = <<>> THEN Clean(b)
    ELSE IF b = <<>> THEN Clean(a)
    ELSE Clean(a \o <<"/">> \o b)

\* the elements of a cleaned path ("." and "/" have none)
Elems(p) == CleanElems(SplitSlash(p), <<>>, FALSE)

RECURSIVE RelElems(_, _)
\* filepath.Rel on element lists: drop the common prefix, then one ".." per
\* element left of the base, then what is left of the target
RelElems(b, t) ==
    IF b # <<>> /\ t # <<>> /\ Head(b) = Head(t) THEN RelElems(Tail(b), Tail(t))
    ELSE [i \in 1..Len(b) |-> <<".", ".">>] \o t

\* filepath.Rel(basepath, targpath), for two relative or two absolute paths
Rel(basepath, targpath) ==
    LET r == RelElems(Elems(Clean(basepath)), Elems(Clean(targpath)))
    IN  IF r = <<>> THEN <<".">> ELSE JoinSlash(r)

\* ------------------------------------------------------------------------
\* Filesystem
\* ------------------------------------------------------------------------

\* file contents: plain bytes, or a gzip-compressed tar stream of entries
Plain(b) == [gz |-> FALSE, bytes |-> b, entries |-> <<>>]
Archive(es) == [gz |-> TRUE, bytes |-> "", entries |-> es]
FileNode(d) == [kind |-> "file", data |-> d]
DirNode == [kind |-> "dir", data |-> Plain("")]
SymlinkNode == [kind |-> "symlink", data |-> Plain("")]

\* one tar entry: header.Name, header.Typeflag and the body
Entry(n, t, b) == [name |-> n, typeflag |-> t, body |-> b]

\* the absolute path a path string names (the working directory is "/")
KeyOf(p) == CleanElems(SplitSlash(p), <<>>, TRUE)

Prefixes(k) == {SubSeq(k, 1, i) : i \in 0..Len(k)}
Parent(k) == SubSeq(k, 1, Len(k) - 1)
Under(k, root) == Len(k) >= Len(root) /\ SubSeq(k, 1, Len(root)) = root

Put(f, k, n) == [x \in DOMAIN f \cup {k} |-> IF x = k THEN n ELSE f[x]]

\* os.Stat(p) succeeds
StatOK(f, k) == k \in DOMAIN f

\* os.MkdirAll: fails when an element of the path is not a directory,
\* otherwise creates every missing directory of the path
MkdirAll(f, k) ==
    IF \E p \in Prefixes(k) : p \in DOMAIN f /\ f[p].kind # "dir"
    THEN [fs |-> f, err |-> TRUE, made |-> {}]
    ELSE [fs |-> [x \in DOMAIN f \cup Prefixes(k) |->
                     IF x \in DOMAIN f THEN f[x] ELSE DirNode],
          err |-> FALSE,
          made |-> Prefixes(k) \ DOMAIN f]

\* os.Create: O_CREATE|O_TRUNC, no O_EXCL; an existing file is truncated
OsCreate(f, k) ==
    IF \/ k = <<>>
       \/ Parent(k) \notin DOMAIN f
       \/ f[Parent(k)].kind # "dir"
       \/ (k \in DOMAIN f /\ f[k].kind # "file")
    THEN [fs |-> f, err |-> TRUE]
    ELSE [fs |-> Put(f, k, FileNode(Plain(""))), err |-> FALSE]

\* mkDirIfNotExist(dir): os.Stat("") and os.MkdirAll("") fail (ENOENT); a
\* path that exists is taken as it is; a path below a regular file fails in
\* os.Stat (ENOTDIR); a missing one is made with os.MkdirAll
mkDirIfNotExist(f, dir) ==
    IF dir = <<>> THEN [fs |-> f, err |-> TRUE]
    ELSE IF StatOK(f, KeyOf(dir)) THEN [fs |-> f, err |-> FALSE]
    ELSE LET m == MkdirAll(f, KeyOf(dir)) IN [fs |-> m.fs, err |-> m.err]

\* ------------------------------------------------------------------------
\* unzipUntar
\* ------------------------------------------------------------------------

TarGzSuffix == <<".", "t", "a", "r", ".", "g", "z">>
TgzSuffix == <<".", "t", "g", "z">>

IsTarballName(src) == HasSuffix(src, TarGzSuffix) \/ HasSuffix(src, TgzSuffix)

\* dst of unzipUntar: only "tar.gz" / "tgz" is trimmed, the "." stays
UntarDst(src) ==
    IF HasSuffix(src, TarGzSuffix) THEN TrimSuffix(src, Tail(TarGzSuffix))
    ELSE TrimSuffix(src, Tail(TgzSuffix))

\* where one entry is materialized
EntryPath(dst, name) == Join(dst, name)

RECURSIVE UntarEntries_SkipUnknown(_, _, _, _)
\* a faulty unzipUntar: an entry of another type is skipped and the loop goes on
UntarEntries_SkipUnknown(f, dst, entries, made) ==
    IF entries = <<>> THEN [fs |-> f, err |-> FALSE, made |-> made]
    ELSE LET e == Head(entries)
             p == EntryPath(dst, e.name)
         IN  CASE e.typeflag = "dir" ->
                    LET m == MkdirAll(f, KeyOf(p))
                    IN  IF m.err THEN [fs |-> f, err |-> TRUE, made |-> made]
                        ELSE UntarEntries_SkipUnknown(m.fs, dst, Tail(entries),
                                                      made \cup m.made)
               [] e.typeflag = "reg" ->
                    LET m == MkdirAll(f, KeyOf(Dir(p)))
                        c == OsCreate(m.fs, KeyOf(p))
                    IN  IF m.err THEN [fs |-> f, err |-> TRUE, made |-> made]
                        ELSE IF c.err
                        THEN [fs |-> m.fs, err |-> TRUE, made |-> made \cup m.made]
                        ELSE UntarEntries_SkipUnknown(
                                 Put(c.fs, KeyOf(p), FileNode(Plain(e.body))),
                                 dst, Tail(entries), made \cup m.made \cup {KeyOf(p)})
               [] OTHER -> UntarEntries_SkipUnknown(f, dst, Tail(entries), made)

RECURSIVE UntarEntries(_, _, _, _)
\* the for loop of unzipUntar over the entries tr.Next() yields; made is the
\* set of paths the loop has created or written so far
UntarEntries(f, dst, entries, made) ==
    IF entries = <<>> THEN [fs |-> f, err |-> FALSE, made |-> made]
    ELSE LET e == Head(entries)
             p == EntryPath(dst, e.name)
         IN  CASE e.typeflag = "dir" ->
                    LET m == MkdirAll(f, KeyOf(p))
                    IN  IF m.err THEN [fs |-> f, err |-> TRUE, made |-> made]
                        ELSE UntarEntries(m.fs, dst, Tail(entries), made \cup m.made)
               [] e.typeflag = "reg" ->
                    LET m == MkdirAll(f, KeyOf(Dir(p)))
                        c == OsCreate(m.fs, KeyOf(p))
                    IN  IF m.err THEN [fs |-> f, err |-> TRUE, made |-> made]
                        ELSE IF c.err
                        THEN [fs |-> m.fs, err |-> TRUE, made |-> made \cup m.made]
                        ELSE UntarEntries(Put(c.fs, KeyOf(p), FileNode(Plain(e.body))),
                                          dst, Tail(entries),
                                          made \cup m.made \cup {KeyOf(p)})
               [] OTHER -> [fs |-> f, err |-> TRUE, made |-> made]

\* unzipUntar(src) on filesystem f. The archives of the model are far smaller
\* than the reader's buffer, so the whole stream is read when it is opened.
unzipUntar(f, src) ==
    IF ~IsTarballName(src) THEN [fs |-> f, err |-> TRUE, made |-> {}]
    ELSE IF ~StatOK(f, KeyOf(src)) THEN [fs |-> f, err |-> TRUE, made |-> {}]
    ELSE IF ~f[KeyOf(src)].data.gz THEN [fs |-> f, err |-> TRUE, made |-> {}]
    ELSE UntarEntries(f, UntarDst(src), f[KeyOf(src)].data.entries, {})

\* ------------------------------------------------------------------------
\* zipTar
\* ------------------------------------------------------------------------

\* the filesystem holding the given <<path, node>> pairs
FsOf(S) == [k \in {KeyOf(e[1]) : e \in S} |-> (CHOOSE e \in S : KeyOf(e[1]) = k)[2]]

\* os.Remove
Remove(f, k) == [x \in DOMAIN f \ {k} |-> f[x]]

\* the names os.ReadDir finds in directory k
ChildNames(f, k) ==
    {x[Len(x)] : x \in {y \in DOMAIN f : Len(y) = Len(k) + 1 /\ Under(y, k)}}

RECURSIVE SortNames(_)
\* os.ReadDir returns the names sorted
SortNames(S) ==
    IF S = {} THEN <<>>
    ELSE LET m == CHOOSE x \in S : \A y \in S \ {x} : StrLess(x, y)
         IN  <<m>> \o SortNames(S \ {m})

RECURSIVE WalkDir(_, _)
RECURSIVE WalkNames(_, _, _)
\* filepath.WalkDir(root, fn): the paths fn is called with, in order; the root
\* is passed as given, a child as filepath.Join(dir, name); symbolic links
\* are not followed
WalkDir(f, path) ==
    IF f[KeyOf(path)].kind = "dir"
    THEN <<path>> \o WalkNames(f, path, SortNames(ChildNames(f, KeyOf(path))))
    ELSE <<path>>
WalkNames(f, dir, names) ==
    IF names = <<>> THEN <<>>
    ELSE WalkDir(f, Join(dir, Head(names))) \o WalkNames(f, dir, Tail(names))

\* header.Name of the entry for path: filepath.Rel(filepath.Dir(src), path)
EntryName(src, path) == Rel(Dir(src), path)

RECURSIVE PackWalk(_, _, _, _, _, _)
\* the callback of zipTar over the walked paths; entries are the tar entries
\* written so far. fail = "walk": os.Open(path) fails on a regular file.
\* The walk meets the tarball itself when src + ".tar.gz" lies inside src: its
\* header carries the size the file had at d.Info(), its body is what the file
\* holds when read. Before any entry is written the file is empty and
\* WriteHeader brings the gzip header into it, so the body is longer than the
\* header says and io.Copy fails (tar.ErrWriteTooLong); after an earlier entry
\* the file holds the gzip header alone both times (the compressor buffers
\* the small trees of the model) and the entry is written.
PackWalk(f, src, tarball, paths, entries, fail) ==
    IF paths = <<>> THEN [entries |-> entries, err |-> FALSE]
    ELSE LET path == Head(paths)
             node == f[KeyOf(path)]
             name == EntryName(src, path)
         IN  IF name = <<".">> \/ node.kind = "symlink"
             THEN PackWalk(f, src, tarball, Tail(paths), entries, fail)
             ELSE IF node.kind = "dir"
             THEN PackWalk(f, src, tarball, Tail(paths),
                           Append(entries, Entry(name, "dir", "")), fail)
             ELSE IF fail = "walk" THEN [entries |-> entries, err |-> TRUE]
             ELSE IF KeyOf(path) = KeyOf(tarball)
             THEN IF entries = <<>> THEN [entries |-> entries, err |-> TRUE]
                  ELSE PackWalk(f, src, tarball, Tail(paths),
                                Append(entries, Entry(name, "reg", "gzip-header")), fail)
             ELSE PackWalk(f, src, tarball, Tail(paths),
                           Append(entries, Entry(name, "reg", node.data.bytes)), fail)

\* zipTar(src) on filesystem f: the tarball src + ".tar.gz" is created first,
\* then the tree is walked; the tarball stays behind when the walk fails
zipTar(f, src, fail) ==
    LET tarball == src \o TarGzSuffix
        c == OsCreate(f, KeyOf(tarball))
        w == PackWalk(c.fs, src, tarball, WalkDir(c.fs, src), <<>>, fail)
    IN  IF c.err THEN [fs |-> f, tarball |-> <<>>, err |-> TRUE]
        ELSE [fs |-> Put(c.fs, KeyOf(tarball),
                         FileNode(IF w.err THEN Plain("partial") ELSE Archive(w.entries))),
              tarball |-> tarball,
              err |-> w.err]

\* ------------------------------------------------------------------------
\* Receiver: configuration and requests
\* ------------------------------------------------------------------------

\* the --dropdir and --key the receiver was started with (both non-empty,
\* getFileDropHandler refuses anything else)
dropDir == <<"/", "d">>
passKey == "k1"

\* bound: requests handled in one behaviour of the receiver
MaxReqs == 2

Handlers == {1, 2}

\* declared filenames of the uploaded part
NameA == <<"a">>
NameATgz == <<"a", ".", "t", "g", "z">>
NameATarGz == <<"a", ".", "t", "a", "r", ".", "g", "z">>
NameSubA == <<"b", "/", "a">>
NameDotDot == <<".", ".">>
NameUpDotDot == <<"a", "/", ".", ".">>
NameDot == <<".">>
NameDotSlash == <<".", "/">>
NameEmpty == <<>>
NameSlash == <<"/">>

\* archives a client may upload
ArcTree == <<Entry(<<"b">>, "dir", ""), Entry(<<"b", "/", "e">>, "reg", "X")>>
ArcTree2 == <<Entry(<<"b", "/", "e">>, "reg", "Y")>>
ArcUp1 == <<Entry(<<".", ".", "/", "a">>, "reg", "Y")>>
ArcUp2 == <<Entry(<<".", ".", "/", ".", ".", "/", "e">>, "reg", "X")>>
ArcUpDir == <<Entry(<<".", ".", "/", ".", ".", "/", "e">>, "dir", "")>>
ArcAbs == <<Entry(<<"/", "e">>, "reg", "X")>>
ArcSym == <<Entry(<<"b", "/", "a">>, "reg", "Y"), Entry(<<"b", "/", "e">>, "sym", ""),
            Entry(<<"b", "/", "f">>, "reg", "X")>>

Upload(fn, ft, body, io) ==
    [key |-> passKey, method |-> "POST", hasFile |-> TRUE, filename |-> fn,
     ftype |-> ft, body |-> body, ioFail |-> io]

FileTypes == {"dir", "file", "", "Dir"}

\* authenticated, well-formed uploads
Uploads ==
    {Upload(fn, "file", Plain("X"), "none") :
        fn \in {NameA, NameSubA, NameDotDot, NameUpDotDot, NameDot, NameEmpty,
                NameSlash}}
    \cup {Upload(NameA, ft, Plain("Y"), "none") : ft \in {"file", "dir"}}
    \cup {Upload(NameATgz, ft, Archive(ArcTree), "none") : ft \in FileTypes}
    \cup {Upload(NameATgz, "dir", Archive(a), "none") :
            a \in {ArcUp1, ArcUp2, ArcUpDir, ArcAbs, ArcSym}}
    \cup {Upload(NameATarGz, "dir", Archive(ArcTree2), "none"),
          Upload(NameATgz, "dir", Plain("X"), "none")}
    \cup {Upload(NameATgz, "dir", Archive(ArcTree), io) : io \in {"create", "copy"}}

\* every request the model sends: the uploads, and some of them with a wrong
\* or missing passkey, another method or no file part
Requests ==
    Uploads
    \cup {[Upload(NameATgz, "dir", Archive(ArcUp2), "none") EXCEPT !.key = k] :
            k \in {"k2", ""}}
    \cup {[Upload(NameA, "file", Plain("X"), "none") EXCEPT !.key = "K1", !.method = "GET"],
          [Upload(NameA, "file", Plain("X"), "none") EXCEPT !.method = "GET"],
          [Upload(NameA, "file", Plain("X"), "none") EXCEPT !.method = "PUT",
                                                            !.hasFile = FALSE],
          [Upload(NameA, "file", Plain("X"), "none") EXCEPT !.hasFile = FALSE]}

\* requests of the concurrent specification
ConcRequests ==
    {Upload(NameA, "file", Plain(b), "none") : b \in {"X", "Y"}}
    \cup {Upload(NameATgz, "dir", Archive(ArcTree), "none"),
          Upload(NameSubA, "file", Plain("X"), "copy")}

NoRequest == Upload(NameEmpty, "", Plain(""), "none")

\* ------------------------------------------------------------------------
\* Receiver: state
\* ------------------------------------------------------------------------

VARIABLES
    fs,        \* the receiver's filesystem
    pc,        \* pc[h]: the step handler goroutine h is about to run
    req,       \* req[h]: the request h is serving
    steps,     \* steps[h]: the steps h has run for its request, in order
    status,    \* status[h]: the HTTP status h answered, 0 while unanswered
    pre,       \* pre[h]: the filesystem when h's request arrived
    made,      \* made[h]: the paths h's extraction created or wrote
    last,      \* <<[req, status, pre]>> of the request answered last, or <<>>
    nreq,      \* requests accepted so far
    sfs,       \* the sender's filesystem
    sfs0,      \* the sender's filesystem when the current send started
    spc,       \* the statement of sendFile the sender is about to run
    sarg,      \* [src, key, fail]: the arguments of the current send
    ssrc,      \* the local variable src of sendFile
    sdir,      \* fi.IsDir() of the os.Stat at the top of sendFile
    srm,       \* whether defer os.Remove(src) has been registered
    sreq,      \* the request sendFile built
    sres,      \* what sendFile returned: "" (running), "ok" or the step that failed
    nsend,     \* sends started so far
    ndo,       \* upload requests handed to http.DefaultClient.Do so far
    rargs,     \* [src, peer, key, fail, lookup]: the arguments of the send command
    mpc,       \* where runSend is on the main goroutine
    gpc,       \* where the transfer goroutine of runSend is
    entries,   \* the entries channel of runSend: "open" or "closed"
    ctxDone,   \* whether the lookup context has expired
    completed, \* whether transferCompleted has been closed
    exit,      \* exit code of the command's process, Running while it runs
    out,       \* what the command told the operator last
    jargs,     \* the options given to the join command
    jenv,      \* [hostName, home, rand]: what the join process finds on its host
    jcfg,      \* [name, port, dropDir, passKey] as runJoin computed them
    jpc,       \* where runJoin is
    adv,       \* the service advertisement: [state, name, port, text]
    srv,       \* [port, dropDir, passKey]: the arguments of startReceiverServer
    srvpc,     \* where startReceiverServer is
    errChan    \* errChan of runJoin: the errors sent and not yet received

rvars == <<fs, pc, req, steps, status, pre, made, last, nreq>>
svars == <<sfs, sfs0, spc, sarg, ssrc, sdir, srm, sreq, sres, nsend, ndo>>
nvars == <<rargs, mpc, gpc, entries, ctxDone, completed, exit, out>>
jvars == <<jargs, jenv, jcfg, jpc, adv, srv, srvpc, errChan>>
cvars == <<nvars, jvars>>
vars == <<rvars, svars, cvars>>

\* the drop directory exists once startReceiverServer has run mkDirIfNotExist
EmptyFs == [k \in {<<>>} |-> DirNode]
ReceiverFs == mkDirIfNotExist(EmptyFs, dropDir).fs

ReceiverInit ==
    /\ fs = ReceiverFs
    /\ pc = [h \in Handlers |-> "idle"]
    /\ req = [h \in Handlers |-> NoRequest]
    /\ steps = [h \in Handlers |-> <<>>]
    /\ status = [h \in Handlers |-> 0]
    /\ pre = [h \in Handlers |-> ReceiverFs]
    /\ made = [h \in Handlers |-> {}]
    /\ last = <<>>
    /\ nreq = 0

\* the sender's files when nothing is sent: a regular file /f
SenderBase == FsOf({<<<<"/">>, DirNode>>, <<<<"/", "f">>, FileNode(Plain("X"))>>})

NoSend == [src |-> <<>>, key |-> "", fail |-> "none"]

SenderIdle(f) ==
    /\ sfs = f
    /\ sfs0 = f
    /\ spc = "idle"
    /\ sarg = NoSend
    /\ ssrc = <<>>
    /\ sdir = FALSE
    /\ srm = FALSE
    /\ sreq = NoRequest
    /\ sres = ""
    /\ nsend = 0
    /\ ndo = 0

\* exit code of a process that has not exited
Running == 0 - 1

defaultPort == 8844

NoRun == [src |-> <<>>, peer |-> "", key |-> "", fail |-> "none", lookup |-> "ok"]

\* no command has been started in the process the specification looks at
RunIdle ==
    /\ rargs = NoRun
    /\ mpc = "idle"
    /\ gpc = "idle"
    /\ entries = "open"
    /\ ctxDone = FALSE
    /\ completed = FALSE
    /\ exit = Running
    /\ out = ""

NoOptions == [given |-> {}, name |-> <<>>, port |-> 0, dropdir |-> <<>>, key |-> ""]
NoHost == [hostName |-> <<>>, home |-> <<>>, rand |-> ""]
NoAdv == [state |-> "none", name |-> <<>>, port |-> 0, text |-> <<>>]

\* a join command that got as far as serving: the advertisement is registered,
\* startReceiverServer(port, dropDir, passKey) is inside http.ListenAndServe
\* and runJoin waits on errChan
ServerUp ==
    /\ jargs = NoOptions
    /\ jenv = NoHost
    /\ jcfg = [name |-> <<"h">>, port |-> defaultPort, dropDir |-> dropDir,
               passKey |-> passKey]
    /\ jpc = "wait"
    /\ adv = [state |-> "registered", name |-> <<"h">>, port |-> defaultPort,
              text |-> <<dropDir>>]
    /\ srv = [port |-> defaultPort, dropDir |-> dropDir, passKey |-> passKey]
    /\ srvpc = "listening"
    /\ errChan = <<>>

Init == ReceiverInit /\ SenderIdle(SenderBase) /\ RunIdle /\ ServerUp

\* ------------------------------------------------------------------------
\* Receiver: the handler, step by step
\* ------------------------------------------------------------------------

StatusOK == 200
StatusBadRequest == 400
StatusUnauthorized == 401
StatusMethodNotAllowed == 405
StatusConflict == 409
StatusInternalServerError == 500

\* a faulty authMiddleware: a request without the passkey header is let through
AuthOK_NoHeader(key) == key = passKey \/ key = ""

\* authMiddleware: key != passKey answers 401
AuthOK(key) == key = passKey

\* a faulty handler: the method is not checked
MethodOK_Any(method) == TRUE

\* r.Method != http.MethodPost answers 405
MethodOK(method) == method = "POST"

\* r.FormFile("file") fails: no such part (mime/multipart keeps a part that
\* has no filename as a form value, not as a file)
FormFileErr(r) == ~r.hasFile \/ r.filename = <<>>

\* fileName := path.Base(header.Filename)
\* a faulty handler: the declared filename is used as it is
FileName_Raw(r) == r.filename

FileName(r) == Base(r.filename)

\* a faulty name validation: ".." is not rejected
NameInvalid_NoDotDot(fileName) == fileName = <<>> \/ fileName = <<".">>

\* fileName == "" || fileName == "." || fileName == ".."
NameInvalid(fileName) ==
    fileName = <<>> \/ fileName = <<".">> \/ fileName = <<".", ".">>

\* dstPath := path.Join(dropDir, fileName)
DstPath(r) == Join(dropDir, FileName(r))
DstKey(r) == KeyOf(DstPath(r))

\* a faulty isDirectory: the header value is compared without regard to case
isDirectory_FoldCase(fileType) == fileType \in {"dir", "Dir"}

\* isDirectory(r.Header)
isDirectory(fileType) ==
    IF fileType = "" THEN FALSE
    ELSE IF fileType = "dir" THEN TRUE
    ELSE IF fileType = "file" THEN FALSE
    ELSE FALSE

\* the directory unzipUntar(dstPath) extracts into
ExtractRoot(r) == KeyOf(UntarDst(DstPath(r)))

\* h runs step s and goes on to step next
Advance(h, s, next) ==
    /\ steps' = [steps EXCEPT ![h] = Append(@, s)]
    /\ pc' = [pc EXCEPT ![h] = next]
    /\ status' = status

\* h runs step s, which answers code and ends the request
Answer(h, s, code) ==
    /\ steps' = [steps EXCEPT ![h] = Append(@, s)]
    /\ pc' = [pc EXCEPT ![h] = "done"]
    /\ status' = [status EXCEPT ![h] = code]

\* the server hands request r to handler goroutine h
Accept(h, r) ==
    /\ srvpc = "listening"
    /\ pc[h] = "idle"
    /\ nreq < MaxReqs
    /\ nreq' = nreq + 1
    /\ req' = [req EXCEPT ![h] = r]
    /\ pc' = [pc EXCEPT ![h] = "auth"]
    /\ steps' = [steps EXCEPT ![h] = <<>>]
    /\ status' = [status EXCEPT ![h] = 0]
    /\ pre' = [pre EXCEPT ![h] = fs]
    /\ made' = [made EXCEPT ![h] = {}]
    /\ UNCHANGED <<fs, last>>

\* one request at a time
AcceptSeq ==
    \E r \in Requests :
        /\ \A h \in Handlers : pc[h] = "idle"
        /\ Accept(1, r)
        /\ UNCHANGED <<svars, cvars>>

\* net/http serves every connection on its own goroutine
AcceptConc ==
    \E h \in Handlers : \E r \in ConcRequests : Accept(h, r) /\ UNCHANGED <<svars, cvars>>

AuthGate ==
    \E h \in Handlers :
        /\ pc[h] = "auth"
        /\ IF AuthOK(req[h].key)
           THEN Advance(h, "auth", "method")
           ELSE Answer(h, "auth", StatusUnauthorized)
        /\ UNCHANGED <<fs, req, pre, made, last, nreq, svars, cvars>>

MethodGate ==
    \E h \in Handlers :
        /\ pc[h] = "method"
        /\ IF MethodOK(req[h].method)
           THEN Advance(h, "method", "form")
           ELSE Answer(h, "method", StatusMethodNotAllowed)
        /\ UNCHANGED <<fs, req, pre, made, last, nreq, svars, cvars>>

FormParse ==
    \E h \in Handlers :
        /\ pc[h] = "form"
        /\ IF FormFileErr(req[h])
           THEN Answer(h, "form", StatusBadRequest)
           ELSE Advance(h, "form", "name")
        /\ UNCHANGED <<fs, req, pre, made, last, nreq, svars, cvars>>

NameCheck ==
    \E h \in Handlers :
        /\ pc[h] = "name"
        /\ IF NameInvalid(FileName(req[h]))
           THEN Answer(h, "name", StatusBadRequest)
           ELSE Advance(h, "name", "stat")
        /\ UNCHANGED <<fs, req, pre, made, last, nreq, svars, cvars>>

\* a faulty collision check: the declared filename is checked, not dstPath
Collides_RawName(f, r) == StatOK(f, KeyOf(r.filename))

\* _, err := os.Stat(dstPath); err == nil
Collides(f, r) == StatOK(f, DstKey(r))

\* os.Stat(dstPath) with err == nil answers 409
CollisionCheck ==
    \E h \in Handlers :
        /\ pc[h] = "stat"
        /\ IF Collides(fs, req[h])
           THEN Answer(h, "stat", StatusConflict)
           ELSE Advance(h, "stat", "create")
        /\ UNCHANGED <<fs, req, pre, made, last, nreq, svars, cvars>>

\* another create: exclusive (O_EXCL), failing when the file exists
CreateDst_Excl(f, r) ==
    IF r.ioFail = "create" \/ StatOK(f, DstKey(r))
    THEN [fs |-> f, err |-> TRUE]
    ELSE OsCreate(f, DstKey(r))

\* what os.Create(path.Join(dropDir, fileName)) does to the filesystem
CreateDst(f, r) ==
    IF r.ioFail = "create" THEN [fs |-> f, err |-> TRUE] ELSE OsCreate(f, DstKey(r))

CreateFile ==
    \E h \in Handlers :
        /\ pc[h] = "create"
        /\ LET c == CreateDst(fs, req[h])
           IN  /\ fs' = c.fs
               /\ IF c.err
                  THEN Answer(h, "write", StatusInternalServerError)
                  ELSE /\ pc' = [pc EXCEPT ![h] = "copy"]
                       /\ UNCHANGED <<steps, status>>
        /\ UNCHANGED <<req, pre, made, last, nreq, svars, cvars>>

\* io.Copy(dst, file): the body lands in the file created before; without
\* extraction the handler then returns, which answers 200
CopyBody ==
    \E h \in Handlers :
        /\ pc[h] = "copy"
        /\ IF req[h].ioFail = "copy"
           THEN /\ fs' = fs
                /\ Answer(h, "write", StatusInternalServerError)
           ELSE /\ fs' = Put(fs, DstKey(req[h]), FileNode(req[h].body))
                /\ IF isDirectory(req[h].ftype)
                   THEN Advance(h, "write", "extract")
                   ELSE Answer(h, "write", StatusOK)
        /\ UNCHANGED <<req, pre, made, last, nreq, svars, cvars>>

\* another handler: the uploaded file is removed when its extraction fails
Extract_Cleanup ==
    \E h \in Handlers :
        /\ pc[h] = "extract"
        /\ LET x == unzipUntar(fs, DstPath(req[h]))
           IN  /\ fs' = IF x.err THEN Remove(x.fs, DstKey(req[h])) ELSE x.fs
               /\ made' = [made EXCEPT ![h] = x.made]
               /\ IF x.err
                  THEN Answer(h, "extract", StatusInternalServerError)
                  ELSE Answer(h, "extract", StatusOK)
        /\ UNCHANGED <<req, pre, last, nreq, svars, cvars>>

Extract ==
    \E h \in Handlers :
        /\ pc[h] = "extract"
        /\ LET x == unzipUntar(fs, DstPath(req[h]))
           IN  /\ fs' = x.fs
               /\ made' = [made EXCEPT ![h] = x.made]
               /\ IF x.err
                  THEN Answer(h, "extract", StatusInternalServerError)
                  ELSE Answer(h, "extract", StatusOK)
        /\ UNCHANGED <<req, pre, last, nreq, svars, cvars>>

\* the response is on the wire and the goroutine is free again
Respond ==
    \E h \in Handlers :
        /\ pc[h] = "done"
        /\ pc' = [pc EXCEPT ![h] = "idle"]
        /\ last' = <<[req |-> req[h], status |-> status[h], pre |-> pre[h]]>>
        /\ UNCHANGED <<fs, req, steps, status, pre, made, nreq, svars, cvars>>

Next ==
    \/ AcceptSeq
    \/ AuthGate \/ MethodGate \/ FormParse \/ NameCheck \/ CollisionCheck
    \/ CreateFile \/ CopyBody \/ Extract \/ Respond

\* the receiver serving one request after the other
Spec == Init /\ [][Next]_vars

NextConc ==
    \/ AcceptConc
    \/ AuthGate \/ MethodGate \/ FormParse \/ NameCheck \/ CollisionCheck
    \/ CreateFile \/ CopyBody \/ Extract \/ Respond

\* the receiver serving requests concurrently
SpecConc == Init /\ [][NextConc]_vars

\* ------------------------------------------------------------------------
\* Sender: sendFile
\* ------------------------------------------------------------------------

\* bound: sends in one behaviour of the sender
MaxSends == 1

SrcDir == <<"s">>
SrcDirSlash == <<"s", "/">>
SrcDirAbs == <<"/", "s">>
SrcFile == <<"f">>
SrcMissing == <<"g">>

\* the paths, keys and injected failures of the sends
Srcs == {SrcDir, SrcDirSlash, SrcDirAbs, SrcFile, SrcMissing}
SendKeys == {"k1", "k2"}
SendFails == {"none", "walk", "open", "do"}

\* the directory /s of the sender, next to the regular file /f
SenderTree(S) == FsOf({<<<<"/">>, DirNode>>, <<<<"/", "f">>, FileNode(Plain("X"))>>,
                       <<<<"/", "s">>, DirNode>>} \cup S)
TreeOne == SenderTree({<<<<"/", "s", "/", "a">>, FileNode(Plain("X"))>>})
TreeDash == SenderTree({<<<<"/", "s", "/", "-">>, FileNode(Plain("Y"))>>})
TreeDeep == SenderTree({<<<<"/", "s", "/", "a">>, FileNode(Plain("X"))>>,
                        <<<<"/", "s", "/", "b">>, DirNode>>,
                        <<<<"/", "s", "/", "b", "/", "e">>, FileNode(Plain("Y"))>>,
                        <<<<"/", "s", "/", "e">>, DirNode>>})
TreeEmpty == SenderTree({})
TreeLink == SenderTree({<<<<"/", "s", "/", "a">>, FileNode(Plain("X"))>>,
                        <<<<"/", "s", "/", "b">>, SymlinkNode>>})
\* a file s.tar.gz already lies next to the directory
TreePre == SenderTree({<<<<"/", "s", "/", "a">>, FileNode(Plain("X"))>>,
                       <<<<"/", "s">> \o TarGzSuffix, FileNode(Plain("Z"))>>})
SenderTrees == {TreeOne, TreeDash, TreeDeep, TreeEmpty, TreeLink, TreePre}

InitSend == ReceiverInit /\ RunIdle /\ ServerUp /\ \E t \in SenderTrees : SenderIdle(t)

\* a faulty sendFile: the type header is decided by a second stat, of the
\* substituted src
BuildRequest_StatAgain(f, src, key, isDir) ==
    [key |-> key, method |-> "POST", hasFile |-> TRUE, filename |-> Base(src),
     ftype |-> IF f[KeyOf(src)].kind = "dir" THEN "dir" ELSE "file",
     body |-> f[KeyOf(src)].data, ioFail |-> "none"]

\* the request sendFile builds: one part "file" named path.Base(src) holding
\* the bytes of src, the passkey header, and the type header "file", replaced
\* by "dir" if fi.IsDir()
BuildRequest(f, src, key, isDir) ==
    [key |-> key, method |-> "POST", hasFile |-> TRUE, filename |-> Base(src),
     ftype |-> IF isDir THEN "dir" ELSE "file",
     body |-> f[KeyOf(src)].data, ioFail |-> "none"]

\* sendFile returns result; the deferred os.Remove(src) runs if registered
Return(f, result) ==
    /\ sfs' = IF srm THEN Remove(f, KeyOf(ssrc)) ELSE f
    /\ sres' = result
    /\ spc' = "idle"

\* runSend calls sendFile(src, key, addr, port)
SendStart ==
    \E src \in Srcs : \E key \in SendKeys : \E fail \in SendFails :
        /\ spc = "idle"
        /\ nsend < MaxSends
        /\ nsend' = nsend + 1
        /\ sarg' = [src |-> src, key |-> key, fail |-> fail]
        /\ ssrc' = src
        /\ sfs0' = sfs
        /\ spc' = "stat"
        /\ sdir' = FALSE
        /\ srm' = FALSE
        /\ sreq' = NoRequest
        /\ sres' = ""
        /\ UNCHANGED <<sfs, ndo, rvars, cvars>>

\* fi, err := os.Stat(src)
SendStat ==
    /\ spc = "stat"
    /\ IF StatOK(sfs, KeyOf(ssrc))
       THEN /\ sdir' = (sfs[KeyOf(ssrc)].kind = "dir")
            /\ spc' = IF sfs[KeyOf(ssrc)].kind = "dir" THEN "zip" ELSE "build"
            /\ UNCHANGED <<sfs, sres>>
       ELSE /\ Return(sfs, "stat")
            /\ UNCHANGED sdir
    /\ UNCHANGED <<sfs0, sarg, ssrc, srm, sreq, nsend, ndo, rvars, cvars>>

\* src, err = zipTar(src); defer os.Remove(src) only after it succeeded
SendZipTar ==
    /\ spc = "zip"
    /\ LET z == zipTar(sfs, ssrc, sarg.fail)
       IN  IF z.err
           THEN /\ Return(z.fs, "zip")
                /\ UNCHANGED <<ssrc, srm>>
           ELSE /\ sfs' = z.fs
                /\ ssrc' = z.tarball
                /\ srm' = TRUE
                /\ spc' = "build"
                /\ UNCHANGED sres
    /\ UNCHANGED <<sfs0, sarg, sdir, sreq, nsend, ndo, rvars, cvars>>

\* os.Open(src), the multipart body, http.NewRequest and the headers
SendBuild ==
    /\ spc = "build"
    /\ IF sarg.fail = "open"
       THEN /\ Return(sfs, "open")
            /\ UNCHANGED sreq
       ELSE /\ sreq' = BuildRequest(sfs, ssrc, sarg.key, sdir)
            /\ spc' = "do"
            /\ UNCHANGED <<sfs, sres>>
    /\ UNCHANGED <<sfs0, sarg, ssrc, sdir, srm, nsend, ndo, rvars, cvars>>

\* http.DefaultClient.Do(req): a transport error, or the receiver takes the
\* request
SendDo ==
    /\ spc = "do"
    /\ IF sarg.fail = "do"
       THEN /\ Return(sfs, "do")
            /\ UNCHANGED rvars
       ELSE /\ Accept(1, sreq)
            /\ spc' = "wait"
            /\ UNCHANGED <<sfs, sres, steps, status>>
    /\ ndo' = ndo + 1
    /\ UNCHANGED <<sfs0, sarg, ssrc, sdir, srm, sreq, nsend, cvars>>

\* the response arrives: only 200 is a success
SendResponse ==
    /\ spc = "wait"
    /\ pc[1] = "idle"
    /\ last # <<>>
    /\ Return(sfs, IF last[1].status = StatusOK THEN "ok" ELSE "status")
    /\ UNCHANGED <<sfs0, sarg, ssrc, sdir, srm, sreq, nsend, ndo, rvars, cvars>>

NextSend ==
    \/ SendStart \/ SendStat \/ SendZipTar \/ SendBuild \/ SendDo \/ SendResponse
    \/ AuthGate \/ MethodGate \/ FormParse \/ NameCheck \/ CollisionCheck
    \/ CreateFile \/ CopyBody \/ Extract \/ Respond

\* one sender and the receiver it sends to
SpecSend == InitSend /\ [][NextSend]_vars

\* ------------------------------------------------------------------------
\* Sender: runSend
\* ------------------------------------------------------------------------

\* the peer names advertised on the network, and the names a send may ask for
Peers == {"p"}
PeerNames == {"p", "q"}

\* exit codes: exitWithError(1, ...), a goroutine that panics, main returning
ExitError == 1
ExitPanic == 2
ExitOK == 0

\* exitWithError(code, format, v...): the message is printed and the process
\* ends at once; deferred calls do not run
exitWithError(code, msg) ==
    /\ exit' = code
    /\ out' = msg

\* runSend up to the go statement: the arguments are parsed, the resolver and
\* the lookup context are made, the transfer goroutine is started
RunSend ==
    \E src \in Srcs : \E peer \in PeerNames : \E key \in SendKeys :
    \E fail \in SendFails : \E lookup \in {"ok", "err"} :
        /\ mpc = "idle"
        /\ exit = Running
        /\ rargs' = [src |-> src, peer |-> peer, key |-> key, fail |-> fail,
                     lookup |-> lookup]
        /\ mpc' = "lookup"
        /\ gpc' = "recv"
        /\ UNCHANGED <<entries, ctxDone, completed, exit, out, jvars, svars, rvars>>

\* resolver.Lookup(ctx, peer, service, domain, entries) returns: nil once the
\* query is out, or an error, and then the resolver has cancelled its loop,
\* which closes entries
Lookup ==
    /\ mpc = "lookup"
    /\ exit = Running
    /\ IF rargs.lookup = "err"
       THEN mpc' = "failed" /\ entries' = "closed"
       ELSE mpc' = "wait" /\ UNCHANGED entries
    /\ UNCHANGED <<rargs, gpc, ctxDone, completed, exit, out, jvars, svars, rvars>>

\* exitWithError(1, "Failed to find the peer: %v", err)
LookupFailed ==
    /\ mpc = "failed"
    /\ exit = Running
    /\ exitWithError(ExitError, "Failed to find the peer")
    /\ mpc' = "exited"
    /\ UNCHANGED <<rargs, gpc, entries, ctxDone, completed, jvars, svars, rvars>>

\* the lookup context expires after defaultLookupTimeoutMs; the resolver
\* then closes entries
Expire ==
    /\ mpc = "wait"
    /\ exit = Running
    /\ ~ctxDone
    /\ ctxDone' = TRUE
    /\ entries' = "closed"
    /\ UNCHANGED <<rargs, mpc, gpc, completed, exit, out, jvars, svars, rvars>>

\* e := <-entries receives the entry of the peer, which the resolver sends
\* while the context is live, and the goroutine calls
\* sendFile(src, key, e.AddrIPv4[0].String(), e.Port)
RecvEntry ==
    /\ gpc = "recv"
    /\ exit = Running
    /\ mpc \in {"lookup", "wait"}
    /\ rargs.lookup = "ok"
    /\ rargs.peer \in Peers
    /\ entries = "open"
    /\ gpc' = "send"
    /\ nsend' = nsend + 1
    /\ sarg' = [src |-> rargs.src, key |-> rargs.key, fail |-> rargs.fail]
    /\ ssrc' = rargs.src
    /\ sfs0' = sfs
    /\ spc' = "stat"
    /\ sdir' = FALSE
    /\ srm' = FALSE
    /\ sreq' = NoRequest
    /\ sres' = ""
    /\ UNCHANGED <<sfs, ndo, rargs, mpc, entries, ctxDone, completed, exit, out,
                   jvars, rvars>>

\* e := <-entries on the closed channel yields nil; e.HostName in the Printf
\* that follows dereferences it and the goroutine panics, which ends the
\* process with a stack trace
RecvClosed ==
    /\ gpc = "recv"
    /\ exit = Running
    /\ entries = "closed"
    /\ gpc' = "dead"
    /\ exit' = ExitPanic
    /\ out' = "panic: nil pointer dereference"
    /\ UNCHANGED <<rargs, mpc, entries, ctxDone, completed, jvars, svars, rvars>>

\* a faulty runSend: after a failed sendFile the goroutine waits for the next
\* entry and sends again
TransferOutcome_Retry ==
    /\ gpc = "send"
    /\ exit = Running
    /\ spc = "idle"
    /\ sres # ""
    /\ IF sres = "ok"
       THEN completed' = TRUE /\ gpc' = "done"
       ELSE gpc' = "recv" /\ UNCHANGED completed
    /\ UNCHANGED <<rargs, mpc, entries, ctxDone, exit, out, jvars, svars, rvars>>

\* sendFile has returned to the goroutine: an error is fatal, otherwise
\* close(transferCompleted)
TransferOutcome ==
    /\ gpc = "send"
    /\ exit = Running
    /\ spc = "idle"
    /\ sres # ""
    /\ IF sres = "ok"
       THEN /\ completed' = TRUE
            /\ gpc' = "done"
            /\ UNCHANGED <<exit, out>>
       ELSE /\ exitWithError(ExitError, "Failed to send the file")
            /\ gpc' = "dead"
            /\ UNCHANGED completed
    /\ UNCHANGED <<rargs, mpc, entries, ctxDone, jvars, svars, rvars>>

\* a faulty runSend: main waits for transferCompleted or for the end of the
\* lookup context, whichever comes first
MainReturn_OrExpired ==
    /\ mpc = "wait"
    /\ exit = Running
    /\ completed \/ ctxDone
    /\ mpc' = "returned"
    /\ exit' = ExitOK
    /\ UNCHANGED <<rargs, gpc, entries, ctxDone, completed, out, jvars, svars, rvars>>

\* <-transferCompleted returns, runSend and main return
MainReturn ==
    /\ mpc = "wait"
    /\ exit = Running
    /\ completed
    /\ mpc' = "returned"
    /\ exit' = ExitOK
    /\ UNCHANGED <<rargs, gpc, entries, ctxDone, completed, out, jvars, svars, rvars>>

NextRun ==
    \/ RunSend \/ Lookup \/ LookupFailed \/ Expire \/ RecvEntry \/ RecvClosed
    \/ TransferOutcome \/ MainReturn
    \/ SendStat \/ SendZipTar \/ SendBuild \/ SendDo \/ SendResponse
    \/ AuthGate \/ MethodGate \/ FormParse \/ NameCheck \/ CollisionCheck
    \/ CreateFile \/ CopyBody \/ Extract \/ Respond

\* one send command and the receiver of the peer "p"
SpecRun == InitSend /\ [][NextRun]_vars

\* ------------------------------------------------------------------------
\* Receiver: runJoin and startReceiverServer
\* ------------------------------------------------------------------------

\* trimHostNameSuffix: cut at the first "." unless it is the first character
trimHostNameSuffix(fullName) ==
    IF IndexDot(fullName) > 0 THEN SubSeq(fullName, 1, IndexDot(fullName))
    ELSE fullName

\* defaultDropDir: path.Join(homeDir, "Downloads")
defaultDropDir(home) == Join(home, <<"D", "o", "w", "n", "l", "o", "a", "d", "s">>)

\* *joinCmd.String(opt, default, usage) / *joinCmd.Int(...): runJoin never
\* calls joinCmd.Parse, so a flag holds its default whatever the command
\* line says
JoinFlag(args, opt, default) == default

\* the options of join, the command lines and the hosts of the model
JoinOptions == {"name", "port", "dropdir", "key"}
JoinArgs ==
    {[given |-> g, name |-> n, port |-> 9000, dropdir |-> dropDir, key |-> k] :
        g \in SUBSET JoinOptions, n \in {<<"n">>, <<"n", ".", "x">>},
        k \in {passKey, ""}}
JoinHosts ==
    {[hostName |-> h, home |-> <<"/", "u">>, rand |-> "aB3dE9"] :
        h \in {<<"h">>, <<"h", ".", "l", "a", "n">>, <<".", "h">>}}

\* the receiver before startReceiverServer has run, on filesystem f
ReceiverBoot(f) ==
    /\ fs = f
    /\ pc = [h \in Handlers |-> "idle"]
    /\ req = [h \in Handlers |-> NoRequest]
    /\ steps = [h \in Handlers |-> <<>>]
    /\ status = [h \in Handlers |-> 0]
    /\ pre = [h \in Handlers |-> f]
    /\ made = [h \in Handlers |-> {}]
    /\ last = <<>>
    /\ nreq = 0

NoServer == [port |-> 0, dropDir |-> <<>>, passKey |-> ""]

\* ftr join <args> on a host: main has just called runJoin
InitJoin ==
    /\ ReceiverBoot(EmptyFs)
    /\ SenderIdle(SenderBase)
    /\ RunIdle
    /\ jargs \in JoinArgs
    /\ jenv \in JoinHosts
    /\ jcfg = [name |-> <<>>, port |-> 0, dropDir |-> <<>>, passKey |-> ""]
    /\ jpc = "flags"
    /\ adv = NoAdv
    /\ srv = NoServer
    /\ srvpc = "off"
    /\ errChan = <<>>

\* runJoin: the flag set, os.Hostname and the four flags with their defaults
JoinFlags ==
    /\ jpc = "flags"
    /\ exit = Running
    /\ jcfg' = [name |-> trimHostNameSuffix(JoinFlag(jargs, "name", jenv.hostName)),
                port |-> JoinFlag(jargs, "port", defaultPort),
                dropDir |-> JoinFlag(jargs, "dropdir", defaultDropDir(jenv.home)),
                passKey |-> JoinFlag(jargs, "key", jenv.rand)]
    /\ jpc' = "register"
    /\ UNCHANGED <<jargs, jenv, adv, srv, srvpc, errChan, nvars, svars, rvars>>

\* zeroconf.Register(name, service, domain, *port, []string{*dropDir}, nil),
\* which may fail, and defer rvrSvr.Shutdown()
Register ==
    \E ok \in BOOLEAN :
        /\ jpc = "register"
        /\ exit = Running
        /\ IF ok
           THEN /\ adv' = [state |-> "registered", name |-> jcfg.name,
                           port |-> jcfg.port, text |-> <<jcfg.dropDir>>]
                /\ jpc' = "serve"
                /\ UNCHANGED <<exit, out>>
           ELSE /\ exitWithError(ExitError, "Failed to start the receiver server")
                /\ jpc' = "exited"
                /\ UNCHANGED adv
        /\ UNCHANGED <<jargs, jenv, jcfg, srv, srvpc, errChan, rargs, mpc, gpc,
                       entries, ctxDone, completed, svars, rvars>>

\* go startReceiverServer(*port, *dropDir, *passKey, errChan)
StartServer ==
    /\ jpc = "serve"
    /\ exit = Running
    /\ srv' = [port |-> jcfg.port, dropDir |-> jcfg.dropDir, passKey |-> jcfg.passKey]
    /\ srvpc' = "mkdir"
    /\ jpc' = "wait"
    /\ UNCHANGED <<jargs, jenv, jcfg, adv, errChan, nvars, svars, rvars>>

\* startReceiverServer sends err on errChan and returns
SendErr(err) ==
    /\ errChan' = Append(errChan, err)
    /\ srvpc' = "returned"

\* mkDirIfNotExist(dropDir)
SrvMkDir ==
    /\ srvpc = "mkdir"
    /\ exit = Running
    /\ LET m == mkDirIfNotExist(fs, srv.dropDir)
       IN  IF m.err
           THEN SendErr("failed to create the drop dir") /\ UNCHANGED fs
           ELSE fs' = m.fs /\ srvpc' = "handler" /\ UNCHANGED errChan
    /\ UNCHANGED <<pc, req, steps, status, pre, made, last, nreq,
                   jargs, jenv, jcfg, jpc, adv, srv, nvars, svars>>

\* a getFileDropHandler that accepts an empty passkey
getFileDropHandlerErr_AnyKey(dir, key) == dir = <<>>

\* getFileDropHandler(dropDir, passKey) returns an error
getFileDropHandlerErr(dir, key) == dir = <<>> \/ key = ""

\* authMiddleware(passKey, next) returns an error
authMiddlewareErr(key) == key = ""

\* handler, err := getFileDropHandler(dropDir, passKey)
SrvHandler ==
    /\ srvpc = "handler"
    /\ exit = Running
    /\ IF getFileDropHandlerErr(srv.dropDir, srv.passKey)
       THEN SendErr("failed to get the file drop handler")
       ELSE srvpc' = "auth" /\ UNCHANGED errChan
    /\ UNCHANGED <<jargs, jenv, jcfg, jpc, adv, srv, nvars, svars, rvars>>

\* handlerWithAuth, err := authMiddleware(passKey, handler)
SrvAuth ==
    /\ srvpc = "auth"
    /\ exit = Running
    /\ IF authMiddlewareErr(srv.passKey)
       THEN SendErr("failed to get the auth middleware")
       ELSE srvpc' = "listen" /\ UNCHANGED errChan
    /\ UNCHANGED <<jargs, jenv, jcfg, jpc, adv, srv, nvars, svars, rvars>>

\* http.ListenAndServe: it cannot listen and returns an error, or it serves
SrvListen ==
    \E ok \in BOOLEAN :
        /\ srvpc = "listen"
        /\ exit = Running
        /\ IF ok
           THEN srvpc' = "listening" /\ UNCHANGED errChan
           ELSE SendErr("failed to start the http server")
        /\ UNCHANGED <<jargs, jenv, jcfg, jpc, adv, srv, nvars, svars, rvars>>

\* err := <-errChan in runJoin: a non-nil error is fatal; on nil runJoin
\* returns and the deferred rvrSvr.Shutdown() withdraws the advertisement
JoinRecvErr ==
    /\ jpc = "wait"
    /\ exit = Running
    /\ errChan # <<>>
    /\ errChan' = Tail(errChan)
    /\ IF Head(errChan) # "nil"
       THEN /\ exitWithError(ExitError, Head(errChan))
            /\ jpc' = "exited"
            /\ UNCHANGED adv
       ELSE /\ adv' = [adv EXCEPT !.state = "withdrawn"]
            /\ jpc' = "returned"
            /\ exit' = ExitOK
            /\ UNCHANGED out
    /\ UNCHANGED <<jargs, jenv, jcfg, srv, srvpc, rargs, mpc, gpc, entries,
                   ctxDone, completed, svars, rvars>>

NextJoin ==
    \/ JoinFlags \/ Register \/ StartServer
    \/ SrvMkDir \/ SrvHandler \/ SrvAuth \/ SrvListen \/ JoinRecvErr

\* one join command from its command line
SpecJoin == InitJoin /\ [][NextJoin]_vars

\* the arguments startReceiverServer may be called with
ServerArgs ==
    {[port |-> defaultPort, dropDir |-> d, passKey |-> k] :
        d \in {<<>>, dropDir}, k \in {"", passKey}}

\* runJoin has registered the service and started
\* startReceiverServer(port, dropDir, passKey, errChan); the drop directory
\* exists already or not
InitServer ==
    /\ \E f \in {EmptyFs, ReceiverFs} : ReceiverBoot(f)
    /\ SenderIdle(SenderBase)
    /\ RunIdle
    /\ jargs = NoOptions
    /\ jenv = NoHost
    /\ srv \in ServerArgs
    /\ jcfg = [name |-> <<"h">>, port |-> srv.port, dropDir |-> srv.dropDir,
               passKey |-> srv.passKey]
    /\ jpc = "wait"
    /\ adv = [state |-> "registered", name |-> <<"h">>, port |-> srv.port,
              text |-> <<srv.dropDir>>]
    /\ srvpc = "mkdir"
    /\ errChan = <<>>

NextServer ==
    \/ SrvMkDir \/ SrvHandler \/ SrvAuth \/ SrvListen \/ JoinRecvErr
    \/ Next

\* startReceiverServer from its call, and the requests it then serves
SpecServer == InitServer /\ [][NextServer]_vars

\* ------------------------------------------------------------------------
\* Claims about the receiver
\* ------------------------------------------------------------------------

\* h is serving, or has just answered, a request
Serving(h) == pc[h] # "idle"
Answered(h) == pc[h] = "done"

\* r is an authenticated POST upload with a file part
IsUpload(r) == r.key = passKey /\ r.method = "POST" /\ r.hasFile /\ r.filename # <<>>

\* C1: a request whose passkey header differs from the configured passkey is
\* answered 401, runs no step after the auth gate and leaves the filesystem
\* as it found it, whatever its method, filename and body.
C1_AuthInvariant ==
    \A h \in Handlers :
        (Serving(h) /\ req[h].key # passKey) =>
            /\ steps[h] \in {<<>>, <<"auth">>}
            /\ status[h] \in {0, StatusUnauthorized}
            /\ Answered(h) => status[h] = StatusUnauthorized
            /\ fs = pre[h]

\* C1 witness: a dir-framed POST upload of a traversal archive without the
\* passkey header has been answered 401
C1_Witness ==
    /\ Answered(1)
    /\ req[1].key = ""
    /\ req[1].method = "POST"
    /\ req[1].ftype = "dir"
    /\ req[1].body = Archive(ArcUp2)
    /\ status[1] = StatusUnauthorized

\* C2: every path an extraction creates or writes lies under its extraction
\* root (an entry that would escape it is rejected).
C2_UnpackContained ==
    \A h \in Handlers :
        \A k \in made[h] : Under(k, ExtractRoot(req[h]))

\* the two requests answered last are authenticated uploads of one declared
\* filename, handled one after the other, the first against a drop directory
\* without that name, neither hit by an I/O failure
UploadPair ==
    /\ Answered(1)
    /\ last # <<>>
    /\ IsUpload(last[1].req)
    /\ IsUpload(req[1])
    /\ last[1].req.filename = req[1].filename
    /\ last[1].req.ioFail = "none"
    /\ req[1].ioFail = "none"
    /\ ~StatOK(last[1].pre, DstKey(req[1]))

C4_NoOverwrite ==
    \A h \in Handlers :
        Answered(h) =>
            \A k \in DOMAIN pre[h] :
                pre[h][k].kind = "file" => (StatOK(fs, k) /\ fs[k] = pre[h][k])

\* C5: nothing between the collision check and the create excludes another
\* upload: a handler that has passed the check truncates the destination even
\* when another request has created that file in the meantime.
C5_CheckThenCreateRace ==
    \A h \in Handlers :
        (/\ pc[h] = "create"
         /\ req[h].ioFail # "create"
         /\ StatOK(fs, DstKey(req[h]))
         /\ fs[DstKey(req[h])].kind = "file") =>
            /\ ~CreateDst(fs, req[h]).err
            /\ CreateDst(fs, req[h]).fs[DstKey(req[h])] = FileNode(Plain(""))

\* C5 witness: two concurrent uploads of "a" with different bytes have both
\* passed the check against a directory without "a", both written the file
\* and both been answered 200
C5_Witness ==
    /\ Answered(1) /\ Answered(2)
    /\ req[1].filename = NameA /\ req[2].filename = NameA
    /\ req[1].body # req[2].body
    /\ ~StatOK(pre[1], DstKey(req[1])) /\ ~StatOK(pre[2], DstKey(req[2]))
    /\ steps[1][Len(steps[1])] = "write" /\ steps[2][Len(steps[2])] = "write"
    /\ status[1] = StatusOK /\ status[2] = StatusOK

\* C6: an authenticated POST upload whose filename has the base name "", "."
\* or ".." is answered 400 and changes nothing.
C6_NameSafety ==
    \A h \in Handlers :
        (/\ Answered(h)
         /\ req[h].key = passKey /\ req[h].method = "POST" /\ req[h].hasFile
         /\ Base(req[h].filename) \in {<<>>, <<".">>, <<".", ".">>}) =>
            /\ status[h] = StatusBadRequest
            /\ fs = pre[h]

\* C6 witness: the filename "a/.." has been answered 400
C6_Witness ==
    /\ Answered(1)
    /\ IsUpload(req[1])
    /\ req[1].filename = NameUpDotDot
    /\ status[1] = StatusBadRequest

\* the steps of a request in the order of the code, and the status each
\* answers when it fails
StepOrder == <<"auth", "method", "form", "name", "stat", "write", "extract">>
FailStatus ==
    <<StatusUnauthorized, StatusMethodNotAllowed, StatusBadRequest, StatusBadRequest,
      StatusConflict, StatusInternalServerError, StatusInternalServerError>>

IsPrefix(s, t) == Len(s) <= Len(t) /\ SubSeq(t, 1, Len(s)) = s

\* the first step of StepOrder that fails for request r arriving at
\* filesystem f, 0 when none does
FirstFailure(r, f) ==
    IF r.key # passKey THEN 1
    ELSE IF r.method # "POST" THEN 2
    ELSE IF ~r.hasFile \/ r.filename = <<>> THEN 3
    ELSE IF Base(r.filename) \in {<<".">>, <<".", ".">>} THEN 4
    ELSE IF Join(dropDir, Base(r.filename)) \in {JoinSlash(<<<<>>>> \o k) : k \in DOMAIN f \ {<<>>}}
         THEN 5
    ELSE IF r.ioFail # "none" THEN 6
    ELSE IF r.ftype = "dir"
            /\ unzipUntar(Put(f, DstKey(r), FileNode(r.body)), DstPath(r)).err THEN 7
    ELSE 0

\* C7: a request runs auth, method, form parse, name validation, collision
\* check, write and (dir-framed only) extraction in that order; the first step
\* that fails answers its status (401, 405, 400, 400, 409, 500, 500) and is the
\* last step run; 200 is answered only when no step failed, after the write
\* and, for a dir-framed request, after the extraction.
C7_StepOrder ==
    \A h \in Handlers :
        Serving(h) =>
            /\ IsPrefix(steps[h], StepOrder)
            /\ ~Answered(h) => status[h] = 0
            /\ Answered(h) =>
                LET k == FirstFailure(req[h], pre[h])
                IN  IF k = 0
                    THEN /\ status[h] = StatusOK
                         /\ steps[h] = SubSeq(StepOrder, 1, IF req[h].ftype = "dir" THEN 7 ELSE 6)
                    ELSE /\ status[h] = FailStatus[k]
                         /\ steps[h] = SubSeq(StepOrder, 1, k)

\* C7 witness: a GET with the right passkey and a file part has been answered
\* 405 after the auth and method steps alone, a dir-framed upload before it
\* was answered 200 after all seven steps
C7_Witness ==
    /\ Answered(1)
    /\ req[1].key = passKey /\ req[1].method = "GET" /\ req[1].hasFile
    /\ status[1] = StatusMethodNotAllowed
    /\ steps[1] = <<"auth", "method">>
    /\ last # <<>>
    /\ last[1].req.ftype = "dir"
    /\ last[1].status = StatusOK

\* h's write step has run and succeeded
Written(h) ==
    /\ Len(steps[h]) >= 6
    /\ ~(Len(steps[h]) = 6 /\ status[h] = StatusInternalServerError)

\* C8: after a successful write, extraction is attempted exactly when the
\* X-Ftr-File-Type header is "dir"; with any other value, or none, the upload
\* is answered 200 and kept as the plain file it was uploaded as, and nothing
\* else is created.
C8_TypeFraming ==
    \A h \in Handlers :
        (Answered(h) /\ Written(h)) =>
            /\ (Len(steps[h]) = 7 /\ steps[h][7] = "extract") <=> req[h].ftype = "dir"
            /\ req[h].ftype # "dir" =>
                /\ status[h] = StatusOK
                /\ made[h] = {}
                /\ fs = Put(pre[h], DstKey(req[h]), FileNode(req[h].body))

\* C8 witness: an archive uploaded as "a.tgz" with the header value "Dir" has
\* been answered 200 without extraction
C8_Witness ==
    /\ Answered(1)
    /\ req[1].ftype = "Dir"
    /\ req[1].filename = NameATgz
    /\ req[1].body = Archive(ArcTree)
    /\ status[1] = StatusOK
    /\ steps[1] = SubSeq(StepOrder, 1, 6)

\* h has run unzipUntar for its request
Extracted(h) == Len(steps[h]) = 7 /\ steps[h][7] = "extract"

\* the entry types unzipUntar materializes
Supported(e) == e.typeflag \in {"dir", "reg"}
HasUnsupported(es) == \E i \in 1..Len(es) : ~Supported(es[i])
FirstUnsupported(es) ==
    CHOOSE i \in 1..Len(es) : ~Supported(es[i]) /\ \A j \in 1..(i - 1) : Supported(es[j])

\* the paths the entries before the first unsupported one account for
EarlierPaths(r) ==
    UNION {Prefixes(KeyOf(EntryPath(UntarDst(DstPath(r)), r.body.entries[j].name))) :
              j \in 1..(FirstUnsupported(r.body.entries) - 1)}

\* C17: when the archive of a dir-framed upload holds an entry that is
\* neither a directory nor a regular file, extraction ends at that entry:
\* the request is answered 500, nothing is materialized but the uploaded
\* file and what the entries before it account for, and the server goes on
\* listening.
C17_UnsupportedEntry ==
    \A h \in Handlers :
        (/\ Answered(h)
         /\ Extracted(h)
         /\ IsTarballName(DstPath(req[h]))
         /\ req[h].body.gz
         /\ HasUnsupported(req[h].body.entries)) =>
            /\ status[h] = StatusInternalServerError
            /\ made[h] \subseteq EarlierPaths(req[h])
            /\ DOMAIN fs \ DOMAIN pre[h] \subseteq EarlierPaths(req[h]) \cup {DstKey(req[h])}
            /\ srvpc = "listening"
            /\ exit = Running

\* C17 witness: the archive with a regular file, a symbolic link and another
\* regular file was answered 500 with only the first file extracted, and the
\* next upload has been answered 200
C17_Witness ==
    /\ Answered(1)
    /\ status[1] = StatusOK
    /\ req[1].filename = NameA
    /\ last # <<>>
    /\ last[1].req.body = Archive(ArcSym)
    /\ last[1].status = StatusInternalServerError
    /\ StatOK(fs, ExtractRoot(last[1].req) \o <<<<"b">>, <<"a">>>>)
    /\ ~StatOK(fs, ExtractRoot(last[1].req) \o <<<<"b">>, <<"f">>>>)

\* h has reached the write step (os.Create, io.Copy); h has run part or all
\* of it and not yet anything after it
AtWrite(h) == pc[h] \in {"create", "copy", "extract"} \/ (Answered(h) /\ Len(steps[h]) >= 6)
WriteDone(h) == pc[h] \in {"copy", "extract"} \/ (Answered(h) /\ Len(steps[h]) = 6)

NoSlash(name) == \A i \in 1..Len(name) : name[i] # "/"

\* C19: for every upload that reaches the write step the destination is the
\* drop directory joined with a single name without "/", whatever the
\* declared filename: a direct child of the drop directory, never the drop
\* directory itself; the write step creates or truncates that path and no
\* other.
C19_WriteTarget ==
    \A h \in Handlers :
        /\ AtWrite(h) =>
            /\ NoSlash(FileName(req[h]))
            /\ DstKey(req[h]) = KeyOf(dropDir) \o <<FileName(req[h])>>
            /\ DstKey(req[h]) # KeyOf(dropDir)
        /\ WriteDone(h) =>
            \A k \in (DOMAIN fs \cup DOMAIN pre[h]) \ {DstKey(req[h])} :
                k \in DOMAIN fs /\ k \in DOMAIN pre[h] /\ fs[k] = pre[h][k]

\* C19 witness: the upload declared as "b/a" has been written to the direct
\* child "a" of the drop directory
C19_Witness ==
    /\ Answered(1)
    /\ req[1].filename = NameSubA
    /\ status[1] = StatusOK
    /\ DstKey(req[1]) = KeyOf(dropDir) \o <<NameA>>
    /\ StatOK(fs, DstKey(req[1]))
    /\ fs[DstKey(req[1])].data = req[1].body

\* h answered 500 after os.Create had succeeded: io.Copy or unzipUntar failed
FileLeft(h) ==
    /\ Answered(h)
    /\ status[h] = StatusInternalServerError
    /\ Extracted(h) \/ (Len(steps[h]) = 6 /\ req[h].ioFail = "copy")

\* the request answered last was answered 500 and had created its file
LeftByLast ==
    /\ last # <<>>
    /\ last[1].status = StatusInternalServerError
    /\ ~StatOK(last[1].pre, DstKey(last[1].req))
    /\ StatOK(pre[1], DstKey(last[1].req))

\* C20: a request answered 401, 405, 400 or 409 leaves the filesystem as it
\* was; a request answered 500 after its destination file was created leaves
\* that file, and the entries extracted until the failure, in place; the
\* next upload with the same filename is answered 409 and stores nothing.
C20_FailureLeavesFile ==
    /\ \A h \in Handlers :
        /\ (Answered(h) /\ status[h] \in {StatusUnauthorized, StatusMethodNotAllowed,
                                         StatusBadRequest, StatusConflict}) =>
                fs = pre[h]
        /\ FileLeft(h) =>
            /\ StatOK(fs, DstKey(req[h]))
            /\ fs[DstKey(req[h])].kind = "file"
            /\ ~StatOK(pre[h], DstKey(req[h]))
            /\ made[h] \subseteq DOMAIN fs
            /\ DOMAIN pre[h] \subseteq DOMAIN fs
    /\ (/\ LeftByLast
        /\ Answered(1)
        /\ IsUpload(req[1])
        /\ FileName(req[1]) = FileName(last[1].req)) =>
            /\ status[1] = StatusConflict
            /\ fs = pre[1]

\* C20 witness: the copy of an upload "a.tgz" failed and was answered 500,
\* and the next upload of "a.tgz" has been answered 409
C20_Witness ==
    /\ LeftByLast
    /\ last[1].req.ioFail = "copy"
    /\ last[1].req.filename = NameATgz
    /\ Answered(1)
    /\ req[1].filename = NameATgz
    /\ req[1].ioFail = "none"
    /\ status[1] = StatusConflict

\* ------------------------------------------------------------------------
\* Claims about the sender and the archiver
\* ------------------------------------------------------------------------

\* the path given to the send named a directory when the send started
SentDir == StatOK(sfs0, KeyOf(sarg.src)) /\ sfs0[KeyOf(sarg.src)].kind = "dir"

\* C9: the request carries the type header "dir" exactly when the path given
\* to the send was a directory at the stat, and "file" otherwise, although
\* src then names the archive, a regular file; the body is the archive
\* src.tar.gz exactly when the header is "dir", and the source file itself
\* otherwise.
C9_SenderFraming ==
    sreq # NoRequest =>
        /\ sreq.ftype = IF SentDir THEN "dir" ELSE "file"
        /\ (ssrc = sarg.src \o TarGzSuffix /\ sreq.body.gz) <=> sreq.ftype = "dir"
        /\ sreq.ftype = "file" =>
            /\ ssrc = sarg.src
            /\ sreq.body = sfs0[KeyOf(sarg.src)].data

\* C9 witness: the upload of the directory "s" is in flight with the header
\* "dir" and the archive s.tar.gz, a regular file, as its body
C9_Witness ==
    /\ spc = "wait"
    /\ sarg.src = SrcDir
    /\ sreq.ftype = "dir"
    /\ sreq.filename = <<"s">> \o TarGzSuffix
    /\ sfs[KeyOf(ssrc)].kind = "file"

\* the tree that was sent: its root, and the paths below the root
TreeRoot == KeyOf(sarg.src)
TreePaths == {k \in DOMAIN sfs0 : Under(k, TreeRoot) /\ k # TreeRoot}

\* where the receiver has to hold tree path k: under the extraction root, at
\* the path relative to the parent of the sent directory
Landing(k) == ExtractRoot(req[1]) \o SubSeq(k, Len(TreeRoot), Len(k))

\* a directory of regular files and subdirectories has been packed by the
\* sender, uploaded, and unpacked by the receiver without error
RoundTripDone ==
    /\ spc = "wait"
    /\ Answered(1)
    /\ status[1] = StatusOK
    /\ SentDir
    /\ \A k \in TreePaths : sfs0[k].kind \in {"file", "dir"}

\* C10: unpacking the archive of a directory tree yields, under the
\* extraction root, every path of the tree below the directory's basename
\* with its kind and bytes, and creates nothing else.
C10_RoundTrip ==
    RoundTripDone =>
        /\ \A k \in TreePaths : StatOK(fs, Landing(k)) /\ fs[Landing(k)] = sfs0[k]
        /\ \A t \in made[1] :
            \/ t \in Prefixes(Landing(TreeRoot))
            \/ \E k \in TreePaths : t = Landing(k)

\* sendFile has returned
SendEnded == spc = "idle" /\ sres # ""

\* the archive zipTar creates for the path given to the send
TempArchive == KeyOf(sarg.src \o TarGzSuffix)

\* C11: whenever a send of a directory has ended, with a success or with a
\* failure of packing, opening, building the request, the HTTP exchange or the
\* status check, the archive <dir>.tar.gz of that send does not exist on
\* the sender.
C11_SenderCleanup ==
    (SendEnded /\ SentDir) => ~StatOK(sfs, TempArchive)

\* zipTar has packed the directory given to the send; the entries it wrote
Packed == SentDir /\ srm /\ StatOK(sfs, KeyOf(ssrc))
PackedEntries == sfs[KeyOf(ssrc)].data.entries

\* the entry name of tree path k: the basename of the directory, then the
\* path of k below the directory, joined by "/"
ExpectedName(k) ==
    JoinSlash(<<TreeRoot[Len(TreeRoot)]>> \o SubSeq(k, Len(TreeRoot) + 1, Len(k)))

\* one entry per regular file and per subdirectory of the tree
ExpectedEntries ==
    {<<ExpectedName(k), IF sfs0[k].kind = "dir" THEN "dir" ELSE "reg">> :
        k \in {x \in TreePaths : sfs0[x].kind \in {"file", "dir"}}}

\* C18: the archive zipTar produces holds exactly one entry per regular file
\* and per subdirectory of the source tree, none for the top-level directory
\* itself and none for a symbolic link, and every entry name is a relative
\* "/"-separated path that starts with the basename of the directory.
C18_ArchiveContents ==
    Packed =>
        /\ {<<PackedEntries[i].name, PackedEntries[i].typeflag>> :
                i \in 1..Len(PackedEntries)} = ExpectedEntries
        /\ Len(PackedEntries) = Cardinality(ExpectedEntries)

\* C21: for every directory send the filename of the uploaded part is
\* <basename>.tar.gz, so the extraction of a sender-produced upload never
\* fails because the file is not a tarball; a dir-framed upload whose
\* filename ends in neither ".tar.gz" nor ".tgz" is written to the drop
\* directory and then answered 500.
C21_FramingAgreement ==
    /\ (sreq # NoRequest /\ SentDir) =>
        sreq.filename = Base(sarg.src) \o TarGzSuffix
    /\ (spc = "wait" /\ SentDir /\ Answered(1) /\ Extracted(1)) =>
        IsTarballName(DstPath(req[1]))
    /\ \A h \in Handlers :
        (/\ Answered(h)
         /\ Extracted(h)
         /\ ~IsTarballName(FileName(req[h]))) =>
            /\ status[h] = StatusInternalServerError
            /\ StatOK(fs, DstKey(req[h]))
            /\ fs[DstKey(req[h])] = FileNode(req[h].body)

\* C23: once a directory send has returned, the sender's filesystem is as it
\* was before the send: the source tree is unmodified and no sibling of the
\* directory has been created, altered or removed; a file that existed at
\* <dir>.tar.gz before the send still exists with its content.
C23_SenderFrame ==
    (SendEnded /\ SentDir) => sfs = sfs0

\* ------------------------------------------------------------------------
\* Claims about the send command
\* ------------------------------------------------------------------------

\* C12: if the lookup timeout expires before an entry for the requested name
\* was delivered, the send command ends with the peer-not-found failure
\* reported to the operator (exit code 1) and without any upload.
C12_DiscoveryTimeout ==
    (ctxDone /\ nsend = 0 /\ exit # Running) =>
        /\ exit = ExitError
        /\ out = "Failed to find the peer"
        /\ ndo = 0

\* C13: one send invocation issues at most one upload request; it ends with
\* exit code 0 only if that request was answered 200, and a transport error
\* or any other status ends it with exit code 1 and no second request.
C13_SingleAttempt ==
    /\ nsend <= 1
    /\ ndo <= 1
    /\ nreq <= ndo
    /\ exit = ExitOK =>
        /\ ndo = 1
        /\ last # <<>>
        /\ last[1].req = sreq
        /\ last[1].status = StatusOK
    /\ (gpc = "dead" /\ sres \in {"do", "status"}) =>
        /\ exit = ExitError
        /\ ndo = 1
        /\ sres = "status" => (last # <<>> /\ last[1].status # StatusOK)

\* C13 witness: the one upload of the invocation was answered 401 and the
\* command has ended with exit code 1
C13_Witness ==
    /\ exit = ExitError
    /\ gpc = "dead"
    /\ sres = "status"
    /\ ndo = 1
    /\ last # <<>>
    /\ last[1].status = StatusUnauthorized

\* ------------------------------------------------------------------------
\* Claims about the join command
\* ------------------------------------------------------------------------

\* the value join has to use for an option: the one given, else the default
Configured(opt, default) == IF opt \in jargs.given THEN jargs[opt] ELSE default

\* C14: the name join advertises is the value of --name, or the host name
\* when it is not given, trimmed at its first "."; the port advertised and
\* listened on is the value of --port, the advertised metadata and the
\* drop directory are the value of --dropdir, the passkey enforced is the
\* value of --key; the defaults (8844, ~/Downloads, a random key) apply only
\* to options that were not given.
C14_JoinConfiguration ==
    /\ adv.state = "registered" =>
        /\ adv.name = trimHostNameSuffix(Configured("name", jenv.hostName))
        /\ adv.port = Configured("port", defaultPort)
        /\ adv.text = <<Configured("dropdir", defaultDropDir(jenv.home))>>
    /\ srvpc # "off" =>
        /\ srv.port = Configured("port", defaultPort)
        /\ srv.dropDir = Configured("dropdir", defaultDropDir(jenv.home))
        /\ srv.passKey = Configured("key", jenv.rand)

\* C15: whenever the join command has ended, also after an error of the
\* receiver server, the advertisement registered at its start has been
\* withdrawn.
C15_AdvertisementWithdrawn ==
    (exit # Running /\ adv.state # "none") => adv.state = "withdrawn"

\* the configuration startReceiverServer cannot serve with
BadConfig == srv.passKey = "" \/ srv.dropDir = <<>>

\* the error startReceiverServer reported: on errChan, or printed by runJoin
StartupError == IF errChan # <<>> THEN Head(errChan) ELSE out

C22_TransferOutlivesLookup ==
    /\ gpc = "send" => exit = Running
    /\ (nsend >= 1 /\ exit # Running) =>
        \/ exit = ExitOK /\ completed /\ gpc = "done" /\ sres = "ok"
        \/ exit = ExitError /\ gpc = "dead" /\ sres \notin {"", "ok"}
    /\ (nsend >= 1 /\ SendEnded) =>
        /\ sres = "do" => sarg.fail = "do"
        /\ sres \in {"ok", "status"} => (last # <<>> /\ last[1].req = sreq)
        /\ sres = "ok" <=> (ndo = 1 /\ last # <<>> /\ last[1].status = StatusOK)

\* C22 witness: the lookup context expired after the entry was received, and
\* the upload, still in flight, has been answered 200 by the receiver
C22_Witness ==
    /\ ctxDone
    /\ gpc = "send"
    /\ spc = "wait"
    /\ Answered(1)
    /\ status[1] = StatusOK
    /\ exit = Running

============================================================================
